---- MODULE Spec2Model ----
(***************************************************************************)
(* Model of the signal/slot connection registry of sobject.h.              *)
(*                                                                         *)
(* Every SObject owns a connection registry (m_signalToSlotMap: signal key *)
(* -> ordered list of slot bindings) and a back-reference index            *)
(* (m_slotToSignalObjectList: the emitters it is subscribed to).  The free *)
(* functions connect / disconnect (four overloads), the destructor and     *)
(* emitSignal are the operations.                                          *)
(*                                                                         *)
(* Heap objects are modelled by value:                                     *)
(*   _Signal  = [m_emitter, m_signal]                                      *)
(*   _Slot    = [m_receiver, m_slot, seq]   (seq is a history field)       *)
(*   map pair = [first : _Signal, second : Seq(_Slot)]                     *)
(* The std::map is keyed by the ADDRESS of the key object, so two entries  *)
(* with equal key values are representable: the map is a set of pairs.     *)
(***************************************************************************)
EXTENDS Naturals, Sequences, FiniteSets

\* The SObject instances (addresses) of the program under analysis, and the
\* signals and slots declared by the class of each: A emits two signals and
\* can receive, B emits one signal and has two slots, C only receives.
Objects == {"A", "B", "C"}
Signals == {"S", "S2"}
Slots   == {"M", "M2"}
SignalsOf == [o \in Objects |-> CASE o = "A" -> {"S", "S2"} [] o = "B" -> {"S"} [] OTHER -> {}]
SlotsOf   == [o \in Objects |-> CASE o = "B" -> {"M", "M2"} [] OTHER -> {"M"}]

\* Bound: total number of slot bindings alive at one time.
MaxBindings == 3

\* A nullable pointer is the empty set (nullptr) or the singleton of its target
NULL == {}
Ptr(x) == {x}
Deref(p) == CHOOSE x \in p : TRUE

VARIABLES
    alive,                      \* the constructed, not yet destroyed objects
    m_signalToSlotMap,          \* [Objects -> set of map pairs]
    m_slotToSignalObjectList,   \* [Objects -> Seq(Objects)]
    last,                       \* the last completed top-level operation
    frame                       \* the emitSignal call in progress (SpecE only)

vars == <<alive, m_signalToSlotMap, m_slotToSignalObjectList, last, frame>>

----------------------------------------------------------------------------
\* Sequence helpers

RECURSIVE SeqToSet(_)
SeqToSet(s) == IF s = <<>> THEN {} ELSE {Head(s)} \cup SeqToSet(Tail(s))

\* std::list<T>::remove(value): erases every element equal to value
ListRemove(list, value) == SelectSeq(list, LAMBDA x : x # value)

----------------------------------------------------------------------------
\* _Signal / _Slot objects and their comparisons

\* new _Signal<SM>(emitter, signalM)
Signal(emitter, signalM) == [m_emitter |-> emitter, m_signal |-> signalM]

\* new _Slot<R*, ...>(receiver, slotM); seq is the history field (see connect)
Slot(receiver, slotM, n) == [m_receiver |-> receiver, m_slot |-> slotM, seq |-> n]

\* Variant: two keys of the same emitter are equal, whatever their signal
SignalCompareByPointer_emitterOnly(self, other) ==
    self.m_emitter = other.m_emitter

\* _Signal::compareByPointer
SignalCompareByPointer(self, other) ==
    self.m_emitter = other.m_emitter /\ self.m_signal = other.m_signal

\* _Slot::compareByPointer
SlotCompareByPointer(self, other) ==
    self.m_receiver = other.m_receiver /\ self.m_slot = other.m_slot

\* _Slot::compareByReceiver
compareByReceiver(self, receiver) == self.m_receiver = receiver

\* CustomSignalCompare::operator()(pair)
CustomSignalCompare(signal, element) == SignalCompareByPointer(element.first, signal)

\* CustomSlotCompare::operator()(slot): cmpSlot / cmpReceiver are the two
\* members m_slot / m_receiver, one of which is nullptr
CustomSlotCompare(cmpSlot, cmpReceiver, slot) ==
    LET r0 == FALSE
        r1 == IF cmpSlot # NULL THEN SlotCompareByPointer(slot, Deref(cmpSlot)) ELSE r0
        r2 == IF cmpReceiver # NULL THEN compareByReceiver(slot, Deref(cmpReceiver)) ELSE r1
    IN  r2

----------------------------------------------------------------------------
\* SObject methods, as functions of the object's m_signalToSlotMap

\* std::find_if(map.begin(), map.end(), CustomSignalCompare(signal)) as a
\* nullable pointer to the pair found; NULL is map.end().  The map iterates in
\* key-address order, so among several matching pairs the one found is
\* arbitrary; reachable maps hold at most one.
find_if(map, signal) ==
    IF \E element \in map : CustomSignalCompare(signal, element)
    THEN Ptr(CHOOSE element \in map : CustomSignalCompare(signal, element))
    ELSE NULL

\* std::list::remove_if(CustomSlotCompare(...)): keeps, in order, the slots
\* for which the predicate is false (the others are deleted)
remove_if(second, cmpSlot, cmpReceiver) ==
    SelectSeq(second, LAMBDA slot : ~CustomSlotCompare(cmpSlot, cmpReceiver, slot))

\* SObject::signalIsPresent
signalIsPresent(map, signal) == find_if(map, signal) # NULL

\* Variant: any stored signal counts as a connection with the receiver
connectedWithObject_anySignal(map, receiver) == map # {}

\* SObject::connectedWithObject
connectedWithObject(map, receiver) ==
    \E pairMap \in map :
        \E i \in 1..Len(pairMap.second) :
            CustomSlotCompare(NULL, Ptr(receiver), pairMap.second[i])

\* SObject::getAllReceivers: the receivers of the signal (of every signal when
\* signal is nullptr), sorted by address and deduplicated: a set
getAllReceivers(map, signal) ==
    UNION { { pairMap.second[i].m_receiver : i \in 1..Len(pairMap.second) } :
            pairMap \in { p \in map :
                            ~(signal # NULL /\
                              ~SignalCompareByPointer(p.first, Deref(signal))) } }

\* Variant: the pair is kept when its list becomes empty
EraseIfEmpty_keepPair(map, it, second) ==
    (map \ {it}) \cup {[first |-> it.first, second |-> second]}

\* The tail shared by removeSignalSlotConnection and
\* removeSignalReceiverSlotConnection: store the filtered list, erase the
\* pair when the list is empty
EraseIfEmpty(map, it, second) ==
    IF second = <<>>
    THEN map \ {it}
    ELSE (map \ {it}) \cup {[first |-> it.first, second |-> second]}

\* Variant: only the first slot equal to the given one is removed
removeSignalSlotConnection_firstOnly(map, signal, slot) ==
    LET it == find_if(map, signal)
    IN  IF it = NULL THEN map
        ELSE LET second == Deref(it).second
                 hits   == { i \in 1..Len(second) :
                               CustomSlotCompare(Ptr(slot), NULL, second[i]) }
                 k      == CHOOSE i \in hits : \A j \in hits : i <= j
             IN  IF hits = {} THEN map
                 ELSE EraseIfEmpty(map, Deref(it),
                                   SubSeq(second, 1, k - 1) \o
                                   SubSeq(second, k + 1, Len(second)))

\* Variant: the slots are matched by receiver, whatever their method
removeSignalSlotConnection_byReceiver(map, signal, slot) ==
    LET it == find_if(map, signal)
    IN  IF it = NULL THEN map
        ELSE EraseIfEmpty(map, Deref(it),
                          remove_if(Deref(it).second, NULL, Ptr(slot.m_receiver)))

\* SObject::removeSignalSlotConnection
removeSignalSlotConnection(map, signal, slot) ==
    LET it == find_if(map, signal)
    IN  IF it = NULL THEN map
        ELSE EraseIfEmpty(map, Deref(it), remove_if(Deref(it).second, Ptr(slot), NULL))

\* Variant: the whole pair of the signal is erased
removeSignalReceiverSlotConnection_wholeSignal(map, signal, receiver) ==
    LET it == find_if(map, signal)
    IN  IF it = NULL THEN map ELSE map \ it

\* SObject::removeSignalReceiverSlotConnection
removeSignalReceiverSlotConnection(map, signal, receiver) ==
    LET it == find_if(map, signal)
    IN  IF it = NULL THEN map
        ELSE EraseIfEmpty(map, Deref(it), remove_if(Deref(it).second, NULL, Ptr(receiver)))

\* SObject::removeAllSignalSlotConnection
removeAllSignalSlotConnection(map, signal) ==
    LET it == find_if(map, signal)
    IN  IF it = NULL THEN map ELSE map \ it

\* SObject::removeAllConnection
removeAllConnection(map) == {}

----------------------------------------------------------------------------
\* The free functions and the destructor, as functions of the two members of
\* every object: st = [map |-> m_signalToSlotMap, list |-> m_slotToSignalObjectList]

\* Variant: the emitter is appended to the receiver's index at every connect
connect_alwaysRecord(st, emitter, signalM, receiver, slotM) ==
    LET signal == Signal(emitter, signalM)
        map    == st.map[emitter]
        mapIt  == find_if(map, signal)
        slot   == Slot(receiver, slotM,
                       IF mapIt # NULL THEN Len(Deref(mapIt).second) + 1 ELSE 1)
        newMap == IF mapIt # NULL
                  THEN (map \ mapIt) \cup
                       {[first  |-> Deref(mapIt).first,
                         second |-> Append(Deref(mapIt).second, slot)]}
                  ELSE map \cup {[first |-> signal, second |-> <<slot>>]}
    IN  [st EXCEPT !.map[emitter] = newMap,
                   !.list[receiver] = Append(@, emitter)]

\* Variant: every connect stores a new pair, without looking the signal up
connect_alwaysNewKey(st, emitter, signalM, receiver, slotM) ==
    LET signal == Signal(emitter, signalM)
        slot   == Slot(receiver, slotM, 1)
        st1    == [st EXCEPT !.map[emitter] =
                      @ \cup {[first |-> signal, second |-> <<slot>>]}]
        list   == st1.list[receiver]
    IN  IF emitter \notin SeqToSet(list)
        THEN [st1 EXCEPT !.list[receiver] = Append(list, emitter)]
        ELSE st1

\* Variant: the new slot is put at the front of the list (push_front)
connect_pushFront(st, emitter, signalM, receiver, slotM) ==
    LET signal == Signal(emitter, signalM)
        map    == st.map[emitter]
        mapIt  == find_if(map, signal)
        slot   == Slot(receiver, slotM,
                       IF mapIt # NULL THEN Len(Deref(mapIt).second) + 1 ELSE 1)
        newMap == IF mapIt # NULL
                  THEN (map \ mapIt) \cup
                       {[first  |-> Deref(mapIt).first,
                         second |-> <<slot>> \o Deref(mapIt).second]}
                  ELSE map \cup {[first |-> signal, second |-> <<slot>>]}
        st1    == [st EXCEPT !.map[emitter] = newMap]
        list   == st1.list[receiver]
    IN  IF emitter \notin SeqToSet(list)
        THEN [st1 EXCEPT !.list[receiver] = Append(list, emitter)]
        ELSE st1

\* Variant: a binding equal to a stored one is not stored again
connect_dedup(st, emitter, signalM, receiver, slotM) ==
    LET signal == Signal(emitter, signalM)
        map    == st.map[emitter]
        mapIt  == find_if(map, signal)
        slot   == Slot(receiver, slotM,
                       IF mapIt # NULL THEN Len(Deref(mapIt).second) + 1 ELSE 1)
        known  == mapIt # NULL /\
                  \E i \in 1..Len(Deref(mapIt).second) :
                      SlotCompareByPointer(Deref(mapIt).second[i], slot)
        newMap == IF known THEN map
                  ELSE IF mapIt # NULL
                  THEN (map \ mapIt) \cup
                       {[first  |-> Deref(mapIt).first,
                         second |-> Append(Deref(mapIt).second, slot)]}
                  ELSE map \cup {[first |-> signal, second |-> <<slot>>]}
        st1    == [st EXCEPT !.map[emitter] = newMap]
        list   == st1.list[receiver]
    IN  IF emitter \notin SeqToSet(list)
        THEN [st1 EXCEPT !.list[receiver] = Append(list, emitter)]
        ELSE st1

\* Variant: the binding is stored, the receiver's index is not updated
connect_noBackReference(st, emitter, signalM, receiver, slotM) ==
    LET signal == Signal(emitter, signalM)
        map    == st.map[emitter]
        mapIt  == find_if(map, signal)
        slot   == Slot(receiver, slotM,
                       IF mapIt # NULL THEN Len(Deref(mapIt).second) + 1 ELSE 1)
    IN  [st EXCEPT !.map[emitter] =
            IF mapIt # NULL
            THEN (map \ mapIt) \cup
                 {[first  |-> Deref(mapIt).first,
                   second |-> Append(Deref(mapIt).second, slot)]}
            ELSE map \cup {[first |-> signal, second |-> <<slot>>]}]

\* connect(emitter, signalM, receiver, slotM).  The history field seq of the
\* new _Slot is its rank among the bindings of its signal, oldest first.
\* (deleteSignal only decides whether the temporary key is freed.)
connect(st, emitter, signalM, receiver, slotM) ==
    LET signal == Signal(emitter, signalM)
        map    == st.map[emitter]
        mapIt  == find_if(map, signal)
        slot   == Slot(receiver, slotM,
                       IF mapIt # NULL THEN Len(Deref(mapIt).second) + 1 ELSE 1)
        newMap == IF mapIt # NULL
                  THEN (map \ mapIt) \cup
                       {[first  |-> Deref(mapIt).first,
                         second |-> Append(Deref(mapIt).second, slot)]}
                  ELSE map \cup {[first |-> signal, second |-> <<slot>>]}
        st1    == [st EXCEPT !.map[emitter] = newMap]
        list   == st1.list[receiver]
    IN  IF emitter \notin SeqToSet(list)
        THEN [st1 EXCEPT !.list[receiver] = Append(list, emitter)]
        ELSE st1

\* Variant: a receiver left without connection has its whole index cleared
disconnect4_clearIndex(st, emitter, signalM, receiver, slotM) ==
    LET signal == Signal(emitter, signalM)
        slot   == Slot(receiver, slotM, 0)
    IN  IF ~signalIsPresent(st.map[emitter], signal) THEN st
        ELSE LET st1 == [st EXCEPT !.map[emitter] =
                            removeSignalSlotConnection(@, signal, slot)]
             IN  IF ~connectedWithObject(st1.map[emitter], receiver)
                 THEN [st1 EXCEPT !.list[receiver] = <<>>]
                 ELSE st1

\* disconnect(emitter, signalM, receiver, slotM)
disconnect4(st, emitter, signalM, receiver, slotM) ==
    LET signal == Signal(emitter, signalM)
        slot   == Slot(receiver, slotM, 0)
    IN  IF ~signalIsPresent(st.map[emitter], signal) THEN st
        ELSE LET st1 == [st EXCEPT !.map[emitter] =
                            removeSignalSlotConnection(@, signal, slot)]
             IN  IF ~connectedWithObject(st1.map[emitter], receiver)
                 THEN [st1 EXCEPT !.list[receiver] = ListRemove(@, emitter)]
                 ELSE st1

\* Variant: the back-reference is dropped without asking connectedWithObject
disconnect3_alwaysUnsubscribe(st, emitter, signalM, receiver) ==
    LET signal == Signal(emitter, signalM)
    IN  IF ~signalIsPresent(st.map[emitter], signal) THEN st
        ELSE [st EXCEPT !.map[emitter] =
                    removeSignalReceiverSlotConnection(@, signal, receiver),
                 !.list[receiver] = ListRemove(@, emitter)]

\* disconnect(emitter, signalM, receiver)
disconnect3(st, emitter, signalM, receiver) ==
    LET signal == Signal(emitter, signalM)
    IN  IF ~signalIsPresent(st.map[emitter], signal) THEN st
        ELSE LET st1 == [st EXCEPT !.map[emitter] =
                            removeSignalReceiverSlotConnection(@, signal, receiver)]
             IN  IF ~connectedWithObject(st1.map[emitter], receiver)
                 THEN [st1 EXCEPT !.list[receiver] = ListRemove(@, emitter)]
                 ELSE st1

\* Variant: the receivers of the signal lose the back-reference without the
\* connectedWithObject re-check
disconnect2_alwaysUnsubscribe(st, emitter, signalM) ==
    LET signal == Signal(emitter, signalM)
    IN  IF ~signalIsPresent(st.map[emitter], signal) THEN st
        ELSE LET receiverList == getAllReceivers(st.map[emitter], Ptr(signal))
                 st1 == [st EXCEPT !.map[emitter] =
                            removeAllSignalSlotConnection(@, signal)]
             IN  [st1 EXCEPT !.list =
                    [receiver \in DOMAIN @ |->
                        IF receiver \in receiverList
                        THEN ListRemove(@[receiver], emitter)
                        ELSE @[receiver]]]

\* disconnect(emitter, signalM)
disconnect2(st, emitter, signalM) ==
    LET signal == Signal(emitter, signalM)
    IN  IF ~signalIsPresent(st.map[emitter], signal) THEN st
        ELSE LET receiverList == getAllReceivers(st.map[emitter], Ptr(signal))
                 st1 == [st EXCEPT !.map[emitter] =
                            removeAllSignalSlotConnection(@, signal)]
             IN  [st1 EXCEPT !.list =
                    [receiver \in DOMAIN @ |->
                        IF receiver \in receiverList /\
                           ~connectedWithObject(st1.map[emitter], receiver)
                        THEN ListRemove(@[receiver], emitter)
                        ELSE @[receiver]]]

\* Variant: the emitter's own index is cleared as well
disconnect1_clearOwnIndex(st, emitter) ==
    LET receiverList == getAllReceivers(st.map[emitter], NULL)
        st1 == [st EXCEPT !.map[emitter] = removeAllConnection(@)]
    IN  [st1 EXCEPT !.list =
            [receiver \in DOMAIN @ |->
                IF receiver = emitter THEN <<>>
                ELSE IF receiver \in receiverList
                THEN ListRemove(@[receiver], emitter)
                ELSE @[receiver]]]

\* Variant: the registry is cleared, the receivers are not visited
disconnect1_registryOnly(st, emitter) ==
    [st EXCEPT !.map[emitter] = removeAllConnection(@)]

\* disconnect(emitter)
disconnect1(st, emitter) ==
    LET receiverList == getAllReceivers(st.map[emitter], NULL)
        st1 == [st EXCEPT !.map[emitter] = removeAllConnection(@)]
    IN  [st1 EXCEPT !.list =
            [receiver \in DOMAIN @ |->
                IF receiver \in receiverList
                THEN ListRemove(@[receiver], emitter)
                ELSE @[receiver]]]

\* Variant: the emptied pairs are not erased
DestructorBody_keepEmpty(map, this) ==
    { [first  |-> signal.first,
       second |-> remove_if(signal.second, NULL, Ptr(this))] : signal \in map }

\* ~SObject, the body of the loop over m_slotToSignalObjectList: remove this
\* object's slots from every signal of sObject, then erase the pairs whose
\* list is empty (listToremove)
DestructorBody(map, this) ==
    LET filtered == { [first  |-> signal.first,
                       second |-> remove_if(signal.second, NULL, Ptr(this))] :
                      signal \in map }
    IN  { signal \in filtered : signal.second # <<>> }

\* Variant: the loop stops after the first emitter
DestructorLoop_firstOnly(stMap, this, list) ==
    IF list = <<>> THEN stMap
    ELSE [stMap EXCEPT ![Head(list)] = DestructorBody(@, this)]

\* ~SObject, the loop over the emitters of m_slotToSignalObjectList
RECURSIVE DestructorLoop(_, _, _)
DestructorLoop(stMap, this, list) ==
    IF list = <<>> THEN stMap
    ELSE LET sObject == Head(list)
         IN  DestructorLoop([stMap EXCEPT ![sObject] = DestructorBody(@, this)],
                            this, Tail(list))

\* SObject::~SObject
Destructor(st, this) ==
    LET st1 == disconnect1(st, this)
        st2 == [st1 EXCEPT !.map = DestructorLoop(@, this, st1.list[this])]
    IN  [st2 EXCEPT !.list[this] = <<>>]

\* SObject::emitSignal with slots that touch no connection: the slots
\* executed, in order, each with the key of the pair it was found under
emitSignal(map, this, signalMethod) ==
    LET signal == Signal(this, signalMethod)
        it     == find_if(map, signal)
    IN  IF it = NULL THEN <<>>
        ELSE [ i \in 1..Len(Deref(it).second) |->
                 [first |-> Deref(it).first, connectedObject |-> Deref(it).second[i]] ]

----------------------------------------------------------------------------
\* History: after a removal the seq fields of the slots left in a list are
\* brought back to ranks 1..n, keeping their relative order
Renumber(second) ==
    [ i \in 1..Len(second) |->
        [second[i] EXCEPT !.seq =
            Cardinality({ j \in 1..Len(second) : second[j].seq <= second[i].seq })] ]

RenumberAll(stMap) ==
    [ o \in DOMAIN stMap |->
        { [first |-> p.first, second |-> Renumber(p.second)] : p \in stMap[o] } ]

\* Number of slot bindings (_Slot objects) held by all registries
Total(stMap) ==
    Cardinality(UNION { UNION { { <<o, p.first, i>> : i \in 1..Len(p.second) } :
                                p \in stMap[o] } : o \in DOMAIN stMap })

NumBindings == Total(m_signalToSlotMap)

----------------------------------------------------------------------------
\* The state machine

NONE == "-"

St == [map |-> m_signalToSlotMap, list |-> m_slotToSignalObjectList]

\* The record of the last completed operation: its name and arguments, the
\* number of _Slot objects it deleted and, for an emit, the slots it executed.
\* History: before points to the registries and indexes as they were when
\* the last connect was called, for that connect and for the calls of
\* disconnect(emitter, signal, receiver, slot) with its arguments that follow
\* it without another operation in between; it is NULL otherwise.
Op(op, emitter, signal, receiver, slot, removed, invoked) ==
    [op |-> op, emitter |-> emitter, signal |-> signal,
     receiver |-> receiver, slot |-> slot, removed |-> removed, invoked |-> invoked,
     before |-> CASE op = "connect" -> Ptr(St)
                  [] /\ op = "disconnect4"
                     /\ last.op \in {"connect", "disconnect4"}
                     /\ <<last.emitter, last.signal, last.receiver, last.slot>>
                           = <<emitter, signal, receiver, slot>> -> last.before
                  [] OTHER -> NULL]

\* No emitSignal call is on the stack
NoFrame ==
    [pc |-> "idle", this |-> NONE, signal |-> NONE, type |-> NONE,
     category |-> NONE, args |-> NONE, begin |-> 0, entry |-> <<>>,
     invoked |-> <<>>, bodies |-> {}, uaf |-> FALSE]

\* Store the outcome st of an operation and record the operation
Commit(st, op, emitter, signal, receiver, slot) ==
    /\ m_signalToSlotMap' = RenumberAll(st.map)
    /\ m_slotToSignalObjectList' = st.list
    /\ last' = Op(op, emitter, signal, receiver, slot,
                  NumBindings - Total(st.map), <<>>)
    /\ UNCHANGED frame

Init ==
    /\ alive = Objects
    /\ m_signalToSlotMap = [o \in Objects |-> {}]
    /\ m_slotToSignalObjectList = [o \in Objects |-> <<>>]
    /\ last = Op("init", NONE, NONE, NONE, NONE, 0, <<>>)
    /\ frame = NoFrame

\* SObject::SObject: a new object at a free address
Construct(x) ==
    /\ x \notin alive
    /\ alive' = alive \cup {x}
    /\ UNCHANGED <<m_signalToSlotMap, m_slotToSignalObjectList, frame>>
    /\ last' = Op("construct", x, NONE, NONE, NONE, 0, <<>>)

\* delete x
Destroy(x) ==
    /\ x \in alive
    /\ alive' = alive \ {x}
    /\ LET st == Destructor(St, x) IN Commit(st, "destroy", x, NONE, NONE, NONE)

Connect(e, s, r, m) ==
    /\ e \in alive /\ r \in alive
    /\ NumBindings < MaxBindings
    /\ m_signalToSlotMap' = connect(St, e, s, r, m).map
    /\ m_slotToSignalObjectList' = connect(St, e, s, r, m).list
    /\ last' = Op("connect", e, s, r, m, 0, <<>>)
    /\ UNCHANGED <<alive, frame>>

Disconnect4(e, s, r, m) ==
    /\ e \in alive /\ r \in alive
    /\ LET st == disconnect4(St, e, s, r, m) IN Commit(st, "disconnect4", e, s, r, m)
    /\ UNCHANGED alive

Disconnect3(e, s, r) ==
    /\ e \in alive /\ r \in alive
    /\ LET st == disconnect3(St, e, s, r) IN Commit(st, "disconnect3", e, s, r, NONE)
    /\ UNCHANGED alive

Disconnect2(e, s) ==
    /\ e \in alive
    /\ LET st == disconnect2(St, e, s) IN Commit(st, "disconnect2", e, s, NONE, NONE)
    /\ UNCHANGED alive

Disconnect1(e) ==
    /\ e \in alive
    /\ LET st == disconnect1(St, e) IN Commit(st, "disconnect1", e, NONE, NONE, NONE)
    /\ UNCHANGED alive

Emit(e, s) ==
    /\ e \in alive
    /\ last' = Op("emit", e, s, NONE, NONE, 0, emitSignal(m_signalToSlotMap[e], e, s))
    /\ UNCHANGED <<alive, m_signalToSlotMap, m_slotToSignalObjectList, frame>>

Next ==
    \/ \E x \in Objects : Construct(x)
    \/ \E x \in Objects : Destroy(x)
    \/ \E e \in Objects, r \in Objects :
          \E s \in SignalsOf[e], m \in SlotsOf[r] : Connect(e, s, r, m)
    \/ \E e \in Objects, r \in Objects :
          \E s \in SignalsOf[e], m \in SlotsOf[r] : Disconnect4(e, s, r, m)
    \/ \E e \in Objects, r \in Objects :
          \E s \in SignalsOf[e] : Disconnect3(e, s, r)
    \/ \E e \in Objects : \E s \in SignalsOf[e] : Disconnect2(e, s)
    \/ \E e \in Objects : Disconnect1(e)
    \/ \E e \in Objects : \E s \in SignalsOf[e] : Emit(e, s)

Spec == Init /\ [][Next]_vars

----------------------------------------------------------------------------
\* emitSignal step by step, with slots that call back into the library.
\* frame is the activation of emitSignal: this and signalMethod, the args
\* pack (one argument, of type int or std::string, passed as an lvalue or as
\* a temporary), the position begin of the range-for iterator in it->second,
\* and the record of what the call did.

\* Bound: the number of things a slot may do in one emitSignal call that
\* change the connections
MaxCallbacks == 1

ArgTypes      == {"int", "string"}
ArgCategories == {"lvalue", "rvalue"}

\* The value the caller passes for an argument of the type
Passed(type) == IF type = "int" THEN "42" ELSE "x"

\* std::any(std::forward<Args>(args)): the values args can hold after it.  An
\* lvalue is copied; a temporary is moved from, which leaves an int as it
\* was and a std::string in a valid but unspecified state
Forwarded(type, category, value) ==
    IF category = "rvalue" /\ type = "string" THEN {value, ""} ELSE {value}

\* What the slot of connectedObject may do, called from emitSignal of this
\* for signalMethod: return, or one call of connect / disconnect on the
\* signal being emitted, or the destruction of a receiver
SlotBodies(this, signalMethod) ==
    {[kind |-> "return", receiver |-> NONE, slot |-> NONE]}
    \cup { [kind |-> k, receiver |-> r, slot |-> m] :
             k \in {"connect", "disconnect4"},
             r \in alive, m \in UNION { SlotsOf[o] : o \in alive } }
    \cup { [kind |-> "disconnect3", receiver |-> r, slot |-> NONE] : r \in alive }
    \cup { [kind |-> k, receiver |-> NONE, slot |-> NONE] :
             k \in {"disconnect2", "disconnect1"} }
    \cup { [kind |-> "destroy", receiver |-> r, slot |-> NONE] :
             r \in alive \ {this} }

\* The effect of a slot body on the connections
RunBody(body, st, this, signalMethod) ==
    CASE body.kind = "return"      -> st
      [] body.kind = "connect"     -> connect(st, this, signalMethod, body.receiver, body.slot)
      [] body.kind = "disconnect4" -> disconnect4(st, this, signalMethod, body.receiver, body.slot)
      [] body.kind = "disconnect3" -> disconnect3(st, this, signalMethod, body.receiver)
      [] body.kind = "disconnect2" -> disconnect2(st, this, signalMethod)
      [] body.kind = "disconnect1" -> disconnect1(st, this)
      [] body.kind = "destroy"     -> Destructor(st, body.receiver)

\* emitSignal up to the loop: find the pair of the signal; return when there
\* is none, else start the range-for at it->second.begin()
EmitBegin(e, s, type, category) ==
    /\ frame.pc = "idle"
    /\ e \in alive
    /\ LET it == find_if(m_signalToSlotMap[e], Signal(e, s))
           fr == [NoFrame EXCEPT !.this = e, !.signal = s, !.type = type,
                                 !.category = category, !.args = Passed(type)]
       IN  frame' = IF it = NULL
                    THEN [fr EXCEPT !.pc = "done"]
                    ELSE [fr EXCEPT !.pc = "loop", !.begin = 1,
                                    !.entry =
                                       [ i \in 1..Len(Deref(it).second) |->
                                           <<Deref(it).second[i].m_receiver,
                                             Deref(it).second[i].m_slot>> ]]
    /\ UNCHANGED <<alive, m_signalToSlotMap, m_slotToSignalObjectList, last>>

\* One iteration of the range-for of emitSignal: setInputParams, exec (the
\* slot runs body), then ++__begin and the test against __end.  When the body
\* erased the node __begin points to, or the pair that holds the list, the
\* increment reads freed memory: the iterator may then land anywhere in the
\* list, or the loop may end.
EmitIterate(body) ==
    /\ frame.pc = "loop"
    /\ body \in SlotBodies(frame.this, frame.signal)
    /\ body.kind = "connect" => NumBindings < MaxBindings
    /\ body.kind # "return" => Cardinality(frame.bodies) < MaxCallbacks
    /\ body.slot # NONE => body.slot \in SlotsOf[body.receiver]
    /\ LET this   == frame.this
           it     == find_if(m_signalToSlotMap[this], Signal(this, frame.signal))
           connectedObject == Deref(it).second[frame.begin]
           st     == RunBody(body, St, this, frame.signal)
           after  == { p \in st.map[this] : p.first = Signal(this, frame.signal) }
           second == IF after = {} THEN <<>> ELSE (CHOOSE p \in after : TRUE).second
           kept   == { i \in 1..Len(second) : second[i].seq = connectedObject.seq }
           freed  == kept = {}
           nexts  == IF freed
                     THEN IF after = {} THEN {1} ELSE 1..(Len(second) + 1)
                     ELSE { (CHOOSE i \in kept : TRUE) + 1 }
           record == [first |-> Deref(it).first,
                      connectedObject |-> <<connectedObject.m_receiver,
                                            connectedObject.m_slot>>,
                      m_inputParams |-> frame.args]
       IN  /\ m_signalToSlotMap' = RenumberAll(st.map)
           /\ m_slotToSignalObjectList' = st.list
           /\ alive' = IF body.kind = "destroy" THEN alive \ {body.receiver} ELSE alive
           /\ \E next \in nexts :
              \E args \in Forwarded(frame.type, frame.category, frame.args) :
                 frame' = [frame EXCEPT
                    !.pc      = IF next > Len(second) THEN "done" ELSE "loop",
                    !.begin   = next,
                    !.args    = args,
                    !.invoked = Append(@, record),
                    !.bodies  = IF body.kind = "return" THEN @
                                ELSE @ \cup {body.kind},
                    !.uaf     = @ \/ freed]
    /\ UNCHANGED last

\* Building the connections before the emit
Prepare(e, s, r, m) == frame.pc = "idle" /\ Connect(e, s, r, m)

NextE ==
    \/ \E e \in Objects, r \in Objects :
          \E s \in SignalsOf[e], m \in SlotsOf[r] : Prepare(e, s, r, m)
    \/ \E e \in Objects : \E s \in SignalsOf[e] :
          \E type \in ArgTypes, category \in ArgCategories :
             EmitBegin(e, s, type, category)
    \/ \E body \in SlotBodies(frame.this, frame.signal) : EmitIterate(body)

SpecE == Init /\ [][NextE]_vars

----------------------------------------------------------------------------
\* Vocabulary of the properties, stated on the stored state only.  A step
\* whose last'.op is the name of an operation is a step of that operation
\* with the arguments recorded in last'.

\* The slots stored under signal s of emitter e (empty when there is no pair)
Listed(stMap, e, s) ==
    { <<p, i>> \in UNION { {p} \X (1..Len(p.second)) : p \in stMap[e] } :
        p.first = Signal(e, s) }

\* e holds at least one binding whose receiver is r, under some signal
Bound(stMap, e, r) ==
    \E p \in stMap[e] : \E i \in 1..Len(p.second) : p.second[i].m_receiver = r

\* Number of bindings (r, m) under signal s of e
Count(stMap, e, s, r, m) ==
    Cardinality({ pi \in Listed(stMap, e, s) :
                    /\ pi[1].second[pi[2]].m_receiver = r
                    /\ pi[1].second[pi[2]].m_slot = m })

\* Number of occurrences of e in a back-reference list
Occurrences(list, e) == Cardinality({ i \in 1..Len(list) : list[i] = e })

\* A list of slots without the history field
Plain(second) ==
    [ i \in 1..Len(second) |-> <<second[i].m_receiver, second[i].m_slot>> ]

\* The pairs of a registry without the history field
PlainMap(map) == { [first |-> p.first, second |-> Plain(p.second)] : p \in map }

\* The pairs of e that are not under signal s
OtherSignals(map, e, s) == { p \in PlainMap(map) : p.first # Signal(e, s) }

\* The list under signal s of e, <<>> when e has no pair for s
ListUnder(map, e, s) ==
    IF \E p \in map : p.first = Signal(e, s)
    THEN Plain((CHOOSE p \in map : p.first = Signal(e, s)).second)
    ELSE <<>>

----------------------------------------------------------------------------
\* C1 (I2, forward): in every state reached by connect, the disconnects and
\* destruction, every binding stored in the registry of a live emitter E has
\* a live receiver R, and E is in R's back-reference index (E = R included).
I2_Forward ==
    \A E \in alive : \A p \in m_signalToSlotMap[E] : \A i \in 1..Len(p.second) :
        LET R == p.second[i].m_receiver
        IN  R \in alive /\ E \in SeqToSet(m_slotToSignalObjectList[R])

\* A destruction has removed bindings while an object connected to itself
\* and to another receiver keeps its bindings.
W_I2_Forward ==
    /\ last.op = "destroy" /\ last.removed > 0
    /\ \E E \in alive : Bound(m_signalToSlotMap, E, E) /\
          \E R \in alive \ {E} : Bound(m_signalToSlotMap, E, R)

\* C2 (I2, converse): every emitter E in the back-reference index of a live
\* receiver R is live and holds at least one binding whose receiver is R.
I2_Converse ==
    \A R \in alive : \A E \in SeqToSet(m_slotToSignalObjectList[R]) :
        E \in alive /\ Bound(m_signalToSlotMap, E, R)

\* A disconnect removed the last binding between its emitter and receiver
\* (the back-reference is gone) while the receiver stays subscribed to
\* another emitter.
W_I2_Converse ==
    /\ last.op = "disconnect4" /\ last.removed > 0
    /\ ~Bound(m_signalToSlotMap, last.emitter, last.receiver)
    /\ last.emitter \notin SeqToSet(m_slotToSignalObjectList[last.receiver])
    /\ m_slotToSignalObjectList[last.receiver] # <<>>

\* C3 (receiver teardown): after destroying B no live registry holds a
\* binding whose receiver is B nor a pair with an empty list, and an emit
\* executes no slot of an object that has been destroyed.
ReceiverTeardown ==
    /\ last.op = "destroy" =>
          \A o \in alive : \A p \in m_signalToSlotMap[o] :
              /\ p.second # <<>>
              /\ \A i \in 1..Len(p.second) : p.second[i].m_receiver # last.emitter
    /\ last.op = "emit" =>
          \A i \in 1..Len(last.invoked) :
              last.invoked[i].connectedObject.m_receiver \in alive

\* C, which declares no signal, was destroyed; that deleted slots in the
\* registry of an emitter that still holds bindings to another receiver.
W_ReceiverTeardown ==
    /\ last.op = "destroy" /\ last.emitter = "C" /\ last.removed > 0
    /\ \E o \in alive : m_signalToSlotMap[o] # {}

\* C4 (emitter teardown): destroying A leaves A in no live object's
\* back-reference index, and an index that held only A is left empty.
EmitterTeardownStep ==
    last'.op = "destroy" =>
        LET A == last'.emitter
        IN  \A B \in alive' :
                /\ A \notin SeqToSet(m_slotToSignalObjectList'[B])
                /\ SeqToSet(m_slotToSignalObjectList[B]) \subseteq {A} =>
                       m_slotToSignalObjectList'[B] = <<>>
EmitterTeardown == [][EmitterTeardownStep]_vars

\* An emitter with bindings to two receivers was destroyed; one of the two
\* stays subscribed to another emitter, the other has an empty index.
W_EmitterTeardown ==
    /\ last.op = "destroy" /\ last.removed >= 2
    /\ \E B \in alive : m_slotToSignalObjectList[B] # <<>>
    /\ \E B \in alive : m_slotToSignalObjectList[B] = <<>>
    /\ SignalsOf[last.emitter] # {}

\* The slots executed by the last emit, without the history field
InvokedPlain == Plain([ i \in 1..Len(last.invoked) |-> last.invoked[i].connectedObject ])

\* C5 (fan-out and ordering): an emit of S on E executes the slots stored
\* under (E, S), each once, oldest connect first (seq counts the connects of
\* the bindings still stored), and no slot stored under another signal.
FanOut ==
    last.op = "emit" =>
        LET e == last.emitter
            s == last.signal
            pairs == { p \in m_signalToSlotMap[e] : p.first = Signal(e, s) }
        IN  /\ pairs = {} => last.invoked = <<>>
            /\ \A p \in pairs :
                  /\ Len(last.invoked) = Len(p.second)
                  /\ \A i \in 1..Len(p.second) :
                        /\ last.invoked[i].connectedObject = p.second[i]
                        /\ p.second[i].seq = i
            /\ \A i \in 1..Len(last.invoked) : last.invoked[i].first = Signal(e, s)

\* An emit executed the slots of two different receivers while the emitter
\* holds a binding under its other signal.
W_FanOut ==
    /\ last.op = "emit" /\ Len(last.invoked) >= 2
    /\ last.invoked[1].connectedObject.m_receiver #
       last.invoked[2].connectedObject.m_receiver
    /\ \E p \in m_signalToSlotMap[last.emitter] :
          p.first # Signal(last.emitter, last.signal) /\ p.second # <<>>

\* C6 (no deduplication): each connect adds one binding to the list of its
\* signal, also when an equal binding is stored; an emit executes a slot as
\* many times as it is stored; the receiver's index holds the emitter once.
NoDedupStep ==
    LET e == last'.emitter
        s == last'.signal
    IN  /\ last'.op = "connect" =>
              LET r == last'.receiver
                  m == last'.slot
              IN  /\ Count(m_signalToSlotMap', e, s, r, m) =
                     Count(m_signalToSlotMap, e, s, r, m) + 1
                  /\ Occurrences(m_slotToSignalObjectList'[r], e) = 1
        /\ last'.op = "emit" =>
              \A r \in Objects : \A m \in SlotsOf[r] :
                  Cardinality({ i \in 1..Len(last'.invoked) :
                      /\ last'.invoked[i].connectedObject.m_receiver = r
                      /\ last'.invoked[i].connectedObject.m_slot = m }) =
                  Count(m_signalToSlotMap, e, s, r, m)
NoDedup == [][NoDedupStep]_vars

\* An emit executed the same slot of the same receiver twice, and that
\* receiver's index holds the emitter once.
W_NoDedup ==
    /\ last.op = "emit" /\ Len(last.invoked) >= 2
    /\ InvokedPlain[1] = InvokedPlain[2]
    /\ Occurrences(m_slotToSignalObjectList[InvokedPlain[1][1]], last.emitter) = 1

\* C7 as stated: a disconnect(E, S, R, M) of a triple connected twice
\* removes one of the two bindings and leaves E in R's index.
DuplicateDisconnectOneStep ==
    LET e == last'.emitter
        s == last'.signal
        r == last'.receiver
        m == last'.slot
    IN  (last'.op = "disconnect4" /\ Count(m_signalToSlotMap, e, s, r, m) = 2) =>
            /\ Count(m_signalToSlotMap', e, s, r, m) = 1
            /\ e \in SeqToSet(m_slotToSignalObjectList'[r])
DuplicateDisconnectOne == [][DuplicateDisconnectOneStep]_vars

\* C7 as amended: a disconnect(E, S, R, M) of a triple connected twice
\* removes both bindings, a following emit of S executes that slot zero
\* times, and E stays in R's index exactly when another binding to R is left.
DuplicateDisconnectAllStep ==
    /\ LET e == last'.emitter
           s == last'.signal
           r == last'.receiver
           m == last'.slot
       IN  (last'.op = "disconnect4" /\ Count(m_signalToSlotMap, e, s, r, m) = 2) =>
              /\ Count(m_signalToSlotMap', e, s, r, m) = 0
              /\ e \in SeqToSet(m_slotToSignalObjectList'[r]) <=>
                     Bound(m_signalToSlotMap', e, r)
    /\ (last.op = "disconnect4" /\ last.removed = 2 /\ last'.op = "emit" /\
        last'.emitter = last.emitter /\ last'.signal = last.signal) =>
          \A i \in 1..Len(last'.invoked) :
              ~ /\ last'.invoked[i].connectedObject.m_receiver = last.receiver
                /\ last'.invoked[i].connectedObject.m_slot = last.slot
DuplicateDisconnectAll == [][DuplicateDisconnectAllStep]_vars

\* One disconnect4 deleted two slots and its emitter is still bound to the
\* receiver through another binding.
W_DuplicateDisconnectAll ==
    /\ last.op = "disconnect4" /\ last.removed = 2
    /\ Bound(m_signalToSlotMap, last.emitter, last.receiver)

\* C8 (frame of disconnect(E, S, R, M)): under S the bindings other than
\* (R, M) are kept in order and every (R, M) is gone; the other signals of E
\* and the other registries are unchanged; R's index loses E exactly when E
\* has no binding to R left; the other indexes are unchanged.
Disconnect4FrameStep ==
    LET e == last'.emitter
        s == last'.signal
        r == last'.receiver
        m == last'.slot
    IN  last'.op = "disconnect4" =>
            /\ ListUnder(m_signalToSlotMap'[e], e, s) =
               SelectSeq(ListUnder(m_signalToSlotMap[e], e, s),
                         LAMBDA b : b # <<r, m>>)
            /\ \A p \in m_signalToSlotMap'[e] : p.second # <<>>
            /\ OtherSignals(m_signalToSlotMap'[e], e, s) =
               OtherSignals(m_signalToSlotMap[e], e, s)
            /\ \A o \in Objects \ {e} : m_signalToSlotMap'[o] = m_signalToSlotMap[o]
            /\ \A o \in Objects \ {r} :
                  m_slotToSignalObjectList'[o] = m_slotToSignalObjectList[o]
            /\ m_slotToSignalObjectList'[r] =
                  IF Bound(m_signalToSlotMap', e, r)
                  THEN m_slotToSignalObjectList[r]
                  ELSE ListRemove(m_slotToSignalObjectList[r], e)
Disconnect4Frame == [][Disconnect4FrameStep]_vars

\* A disconnect4 deleted a slot and left, under the same signal, another
\* slot of the same receiver and a slot of another receiver.
W_Disconnect4Frame ==
    /\ last.op = "disconnect4" /\ last.removed > 0
    /\ LET under == ListUnder(m_signalToSlotMap[last.emitter], last.emitter, last.signal)
       IN  /\ \E i \in 1..Len(under) :
                 under[i][1] = last.receiver /\ under[i][2] # last.slot
           /\ \E i \in 1..Len(under) : under[i][1] # last.receiver

\* C9 (selective disconnect): when B and C are both bound under (A, S) and B
\* under no other signal of A, disconnect(A, S, B) keeps C's bindings under
\* S, takes A out of B's index and keeps A in C's; a following emit of S
\* executes the stored slots of the other receivers and none of B.
SelectiveDisconnectStep ==
    /\ LET A == last'.emitter
           S == last'.signal
           B == last'.receiver
           before == ListUnder(m_signalToSlotMap[A], A, S)
           after  == ListUnder(m_signalToSlotMap'[A], A, S)
       IN  last'.op = "disconnect3" =>
             \A C \in Objects \ {B} :
               ( /\ \E i \in 1..Len(before) : before[i][1] = B
                 /\ \E i \in 1..Len(before) : before[i][1] = C
                 /\ \A p \in OtherSignals(m_signalToSlotMap[A], A, S) :
                       \A i \in 1..Len(p.second) : p.second[i][1] # B ) =>
               /\ SelectSeq(after, LAMBDA b : b[1] = C) =
                  SelectSeq(before, LAMBDA b : b[1] = C)
               /\ A \notin SeqToSet(m_slotToSignalObjectList'[B])
               /\ A \in SeqToSet(m_slotToSignalObjectList'[C])
    /\ (last.op = "disconnect3" /\ last'.op = "emit" /\
        last'.emitter = last.emitter /\ last'.signal = last.signal) =>
          LET done == Plain([ i \in 1..Len(last'.invoked) |->
                                last'.invoked[i].connectedObject ])
          IN  /\ \A i \in 1..Len(done) : done[i][1] # last.receiver
              /\ \A C \in Objects \ {last.receiver} :
                    SelectSeq(done, LAMBDA b : b[1] = C) =
                    SelectSeq(ListUnder(m_signalToSlotMap[last.emitter],
                                        last.emitter, last.signal),
                              LAMBDA b : b[1] = C)
SelectiveDisconnect == [][SelectiveDisconnectStep]_vars

\* A disconnect3 deleted slots of its receiver, which is not subscribed to
\* the emitter any more; another receiver is still bound under the same
\* signal and still subscribed.
W_SelectiveDisconnect ==
    /\ last.op = "disconnect3" /\ last.removed > 0
    /\ last.emitter \notin SeqToSet(m_slotToSignalObjectList[last.receiver])
    /\ \E C \in alive \ {last.receiver} :
          /\ \E b \in SeqToSet(ListUnder(m_signalToSlotMap[last.emitter],
                                         last.emitter, last.signal)) : b[1] = C
          /\ last.emitter \in SeqToSet(m_slotToSignalObjectList[C])

\* C10 (disconnect(E, S, R)): every binding of R under S is removed,
\* whatever its slot; the bindings under the other signals of E are
\* untouched; while E is still bound to R its index entry stays, and it is
\* removed only when no binding to R is left.
Disconnect3AllSlotsStep ==
    LET e == last'.emitter
        s == last'.signal
        r == last'.receiver
    IN  last'.op = "disconnect3" =>
            /\ ListUnder(m_signalToSlotMap'[e], e, s) =
               SelectSeq(ListUnder(m_signalToSlotMap[e], e, s),
                         LAMBDA b : b[1] # r)
            /\ OtherSignals(m_signalToSlotMap'[e], e, s) =
               OtherSignals(m_signalToSlotMap[e], e, s)
            /\ Bound(m_signalToSlotMap', e, r) =>
                  m_slotToSignalObjectList'[r] = m_slotToSignalObjectList[r]
            /\ m_slotToSignalObjectList'[r] # m_slotToSignalObjectList[r] =>
                  /\ ~Bound(m_signalToSlotMap', e, r)
                  /\ m_slotToSignalObjectList'[r] =
                     ListRemove(m_slotToSignalObjectList[r], e)
Disconnect3AllSlots == [][Disconnect3AllSlotsStep]_vars

\* One disconnect3 deleted two slots of its receiver while a binding to
\* that receiver under another signal keeps the emitter in its index.
W_Disconnect3AllSlots ==
    /\ last.op = "disconnect3" /\ last.removed >= 2
    /\ Bound(m_signalToSlotMap, last.emitter, last.receiver)
    /\ last.emitter \in SeqToSet(m_slotToSignalObjectList[last.receiver])

\* C11 (disconnect(E, S)): the pair of S is erased from E's registry; each
\* receiver that had a binding under S loses E from its index exactly when E
\* has no binding to it under another signal; the other receivers' indexes,
\* the other signals of E and the other registries are unchanged.
Disconnect2FrameStep ==
    LET e == last'.emitter
        s == last'.signal
        before == ListUnder(m_signalToSlotMap[e], e, s)
    IN  last'.op = "disconnect2" =>
            /\ \A p \in m_signalToSlotMap'[e] : p.first # Signal(e, s)
            /\ OtherSignals(m_signalToSlotMap'[e], e, s) =
               OtherSignals(m_signalToSlotMap[e], e, s)
            /\ \A o \in Objects \ {e} : m_signalToSlotMap'[o] = m_signalToSlotMap[o]
            /\ \A r \in Objects :
                  m_slotToSignalObjectList'[r] =
                      IF (\E i \in 1..Len(before) : before[i][1] = r) /\
                         ~Bound(m_signalToSlotMap', e, r)
                      THEN ListRemove(m_slotToSignalObjectList[r], e)
                      ELSE m_slotToSignalObjectList[r]
Disconnect2Frame == [][Disconnect2FrameStep]_vars

\* One disconnect2 deleted the slots of two receivers; one of them is still
\* bound under another signal and keeps the emitter in its index, the other
\* has lost it.
W_Disconnect2Frame ==
    /\ last.op = "disconnect2" /\ last.removed >= 2
    /\ \E r \in alive :
          /\ Bound(m_signalToSlotMap, last.emitter, r)
          /\ last.emitter \in SeqToSet(m_slotToSignalObjectList[r])
    /\ NumBindings = 1
    /\ \A o \in Objects \ {last.emitter} : m_signalToSlotMap[o] = {}

\* C12 (disconnect(E)): E's registry is left empty and every receiver that
\* had a binding in it loses E from its index; the emitters E itself is
\* subscribed to (other than E) and the registries of the other emitters,
\* with their bindings towards E, are unchanged.
Disconnect1FrameStep ==
    LET e == last'.emitter
    IN  last'.op = "disconnect1" =>
            /\ m_signalToSlotMap'[e] = {}
            /\ \A r \in Objects :
                  Bound(m_signalToSlotMap, e, r) =>
                      e \notin SeqToSet(m_slotToSignalObjectList'[r])
            /\ \A r \in Objects \ {e} :
                  m_slotToSignalObjectList'[r] =
                  ListRemove(m_slotToSignalObjectList[r], e)
            /\ ListRemove(m_slotToSignalObjectList'[e], e) =
               ListRemove(m_slotToSignalObjectList[e], e)
            /\ \A o \in Objects \ {e} : m_signalToSlotMap'[o] = m_signalToSlotMap[o]
Disconnect1Frame == [][Disconnect1FrameStep]_vars

\* A disconnect1 deleted slots of an emitter that is itself subscribed to
\* another emitter, whose binding towards it is still stored.
W_Disconnect1Frame ==
    /\ last.op = "disconnect1" /\ last.removed > 0
    /\ \E o \in alive \ {last.emitter} :
          /\ Bound(m_signalToSlotMap, o, last.emitter)
          /\ o \in SeqToSet(m_slotToSignalObjectList[last.emitter])

\* C13 (no-op on absent connections): a disconnect whose target is not
\* connected leaves every registry and every index as it was.
DisconnectAbsentStep ==
    LET e == last'.emitter
        s == last'.signal
        r == last'.receiver
        m == last'.slot
        under == ListUnder(m_signalToSlotMap[e], e, s)
        absent ==
            \/ last'.op = "disconnect4" /\ Count(m_signalToSlotMap, e, s, r, m) = 0
            \/ last'.op = "disconnect3" /\ \A i \in 1..Len(under) : under[i][1] # r
            \/ last'.op = "disconnect2" /\
                  \A p \in m_signalToSlotMap[e] : p.first # Signal(e, s)
            \/ last'.op = "disconnect1" /\ m_signalToSlotMap[e] = {}
    IN  absent => /\ m_signalToSlotMap' = m_signalToSlotMap
                  /\ m_slotToSignalObjectList' = m_slotToSignalObjectList
                  /\ alive' = alive
DisconnectAbsent == [][DisconnectAbsentStep]_vars

\* A disconnect4 named a slot that is not stored under a signal that has a
\* pair, for a receiver that has no binding with the emitter but is
\* subscribed to another one; nothing was deleted.
W_DisconnectAbsent ==
    /\ last.op = "disconnect4" /\ last.removed = 0
    /\ ListUnder(m_signalToSlotMap[last.emitter], last.emitter, last.signal) # <<>>
    /\ ~Bound(m_signalToSlotMap, last.emitter, last.receiver)
    /\ m_slotToSignalObjectList[last.receiver] # <<>>

\* C14 (I1): no registry holds two pairs whose keys are equal by value, every
\* key names its owner, and no pair has an empty list.
I1_UniqueNonEmpty ==
    \A o \in Objects :
        /\ \A p \in m_signalToSlotMap[o] :
              p.second # <<>> /\ p.first.m_emitter = o
        /\ \A p, q \in m_signalToSlotMap[o] :
              (p.first.m_emitter = q.first.m_emitter /\
               p.first.m_signal = q.first.m_signal) => p = q

\* A disconnect3 removed the last slots of a signal: its pair is gone, the
\* pair of the emitter's other signal, which holds two slots, is stored.
W_I1_UniqueNonEmpty ==
    /\ last.op = "disconnect3" /\ last.removed > 0
    /\ \A p \in m_signalToSlotMap[last.emitter] :
          p.first # Signal(last.emitter, last.signal)
    /\ \E p \in m_signalToSlotMap[last.emitter] : Len(p.second) >= 2

\* C18 (frame of destruction): destroying X empties X's registry and index,
\* removes from every other registry exactly the bindings whose receiver is
\* X (the other bindings keep their list and their order, a pair is erased
\* only when no binding is left in it) and removes X, and nothing else, from
\* every other index.  This is the outcome of disconnect(X), then the removal
\* of X's slots from its emitters, then the clearing of X's index.
DestructionFrameStep ==
    LET X == last'.emitter
        WithoutX(map) ==
            { q \in { [first  |-> p.first,
                       second |-> SelectSeq(p.second, LAMBDA b : b[1] # X)] :
                      p \in PlainMap(map) } : q.second # <<>> }
    IN  last'.op = "destroy" =>
            /\ alive' = alive \ {X}
            /\ m_signalToSlotMap'[X] = {}
            /\ m_slotToSignalObjectList'[X] = <<>>
            /\ \A o \in Objects \ {X} :
                  /\ PlainMap(m_signalToSlotMap'[o]) = WithoutX(m_signalToSlotMap[o])
                  /\ m_slotToSignalObjectList'[o] =
                     ListRemove(m_slotToSignalObjectList[o], X)
DestructionFrame == [][DestructionFrameStep]_vars

\* The destruction of an object that can emit deleted two slots or more
\* and left a binding between two other objects in place.
W_DestructionFrame ==
    /\ last.op = "destroy" /\ last.removed >= 2
    /\ SignalsOf[last.emitter] # {}
    /\ \E o \in alive : \E r \in alive \ {o} :
          Bound(m_signalToSlotMap, o, r) /\ o \in SeqToSet(m_slotToSignalObjectList[r])

\* The pairs stored for signal s of emitter e
PairsOf(stMap, e, s) == { p \in stMap[e] : p.first = Signal(e, s) }

\* C19 (scope of a signal identity): connect, disconnect4/3/2 and emit on
\* (A, S) leave the bindings of every other (emitter, signal) as they were,
\* an emit executes only slots stored under (A, S), disconnect(A) leaves the
\* other emitters' registries as they were, and a connect naming a signal
\* that has a pair extends that one pair.
SignalScopeStep ==
    LET A == last'.emitter
        S == last'.signal
    IN  /\ last'.op \in {"connect", "disconnect4", "disconnect3", "disconnect2", "emit"} =>
              \A A2 \in Objects : \A S2 \in Signals :
                  <<A2, S2>> # <<A, S>> =>
                      PairsOf(m_signalToSlotMap', A2, S2) =
                      PairsOf(m_signalToSlotMap, A2, S2)
        /\ last'.op = "emit" =>
              \A i \in 1..Len(last'.invoked) :
                  /\ last'.invoked[i].first = Signal(A, S)
                  /\ \E p \in PairsOf(m_signalToSlotMap, A, S) :
                        \E j \in 1..Len(p.second) :
                            p.second[j] = last'.invoked[i].connectedObject
        /\ last'.op = "disconnect1" =>
              \A A2 \in Objects \ {A} : m_signalToSlotMap'[A2] = m_signalToSlotMap[A2]
        /\ last'.op = "connect" =>
              /\ Cardinality(PairsOf(m_signalToSlotMap', A, S)) = 1
              /\ ListUnder(m_signalToSlotMap'[A], A, S) =
                 Append(ListUnder(m_signalToSlotMap[A], A, S),
                        <<last'.receiver, last'.slot>>)
SignalScope == [][SignalScopeStep]_vars

\* A connect extended the pair of a signal while another emitter holds a
\* pair for the signal of the same name and the emitter itself holds a pair
\* for its other signal.
W_SignalScope ==
    /\ last.op = "connect"
    /\ \E A2 \in Objects \ {last.emitter} :
          PairsOf(m_signalToSlotMap, A2, last.signal) # {}
    /\ \E S2 \in Signals \ {last.signal} :
          PairsOf(m_signalToSlotMap, last.emitter, S2) # {}

\* C20 (duplicate-free index): no emitter occurs twice in the
\* back-reference index of an object.
IndexDuplicateFree ==
    \A R \in Objects : \A E \in Objects :
        Occurrences(m_slotToSignalObjectList[R], E) <= 1

\* An emitter is linked to one receiver by three bindings, two of them
\* duplicates under one signal and one under another signal, and occurs
\* once in the receiver's index.
W_IndexDuplicateFree ==
    \E E \in alive : \E R \in alive :
        /\ \E S \in Signals : \E M \in Slots : Count(m_signalToSlotMap, E, S, R, M) = 2
        /\ Cardinality(m_signalToSlotMap[E]) = 2
        /\ \A p \in m_signalToSlotMap[E] :
              \A i \in 1..Len(p.second) : p.second[i].m_receiver = R
        /\ Occurrences(m_slotToSignalObjectList[R], E) = 1

----------------------------------------------------------------------------
\* Vocabulary of the properties of the stepwise emitSignal

\* The slots the emitSignal call has executed so far, as (receiver, slot)
FrameInvoked ==
    [ i \in 1..Len(frame.invoked) |-> frame.invoked[i].connectedObject ]

\* Number of times b occurs in a sequence
Times(seq, b) == Cardinality({ i \in 1..Len(seq) : seq[i] = b })

\* The kinds of slot body that remove bindings
Removals == {"disconnect4", "disconnect3", "disconnect2", "disconnect1", "destroy"}

\* C15 (argument fidelity, P7): every slot executed by an emit, the first as
\* well as the last, receives the value that was passed to the emit, for an
\* int and for a std::string, passed as an lvalue or as a temporary.
ArgumentFidelity ==
    \A i \in 1..Len(frame.invoked) :
        frame.invoked[i].m_inputParams = Passed(frame.type)

\* C15, the part that holds: the first slot always receives the value passed,
\* and so does every slot when the argument is an lvalue or an int.
ArgumentFidelityCopied ==
    \A i \in 1..Len(frame.invoked) :
        (i = 1 \/ frame.category = "lvalue" \/ frame.type = "int")
            => frame.invoked[i].m_inputParams = Passed(frame.type)

\* An emit of a temporary std::string has executed two slots
W_ArgumentFidelity ==
    /\ frame.type = "string" /\ frame.category = "rvalue"
    /\ Len(frame.invoked) >= 2

\* C16 (emit against connect): when a slot of an emit on (E, S) has called
\* connect(E, S, R, M) and no slot has removed anything, the finished emit
\* has executed the bindings stored under (E, S) at its entry and no other:
\* the new binding is not executed by that emit.
EmitWalksEntryList ==
    (frame.pc = "done" /\ frame.bodies = {"connect"})
        => FrameInvoked = frame.entry

\* C17 (emit against removal): an emit never steps through a list node or a
\* pair that a slot has removed and released, and when it is finished it has
\* executed every binding it found at entry that is still stored.
EmitRemovalSafe ==
    /\ ~frame.uaf
    /\ (frame.pc = "done" /\ frame.bodies # {} /\ frame.bodies \subseteq Removals)
          => \A i \in 1..Len(frame.entry) :
                Times(ListUnder(m_signalToSlotMap[frame.this], frame.this, frame.signal),
                      frame.entry[i])
                   <= Times(FrameInvoked, frame.entry[i])

----------------------------------------------------------------------------
\* C21 (round trip): when no binding (R, M) is stored under (E, S), the call
\* connect(E, S, R, M) followed at once by disconnect(E, S, R, M) leaves every
\* registry as it was before the connect (the same pairs, the same slots in
\* the same order) and every back-reference index with the same members;
\* the same disconnect called once more changes nothing.
RoundTripStep ==
    LET e == last'.emitter
        s == last'.signal
        r == last'.receiver
        m == last'.slot
        before == Deref(last'.before)
    IN  (/\ last'.op = "disconnect4"
         /\ last'.before # NULL
         /\ Count(before.map, e, s, r, m) = 0)
        => /\ m_signalToSlotMap' = before.map
           /\ \A o \in Objects :
                 SeqToSet(m_slotToSignalObjectList'[o]) = SeqToSet(before.list[o])
           /\ last.op = "disconnect4"
                 => UNCHANGED <<m_signalToSlotMap, m_slotToSignalObjectList>>

RoundTrip == [][RoundTripStep]_vars

\* A connect of a binding that was not stored has been followed by two calls
\* of disconnect with its arguments, the second of which deleted nothing,
\* while the emitter holds another binding to the same receiver under the
\* same signal and a binding to another receiver.
W_RoundTrip ==
    /\ last.op = "disconnect4"
    /\ last.before # NULL
    /\ last.removed = 0
    /\ Count(Deref(last.before).map, last.emitter, last.signal,
             last.receiver, last.slot) = 0
    /\ \E m2 \in Slots \ {last.slot} :
          Count(m_signalToSlotMap, last.emitter, last.signal, last.receiver, m2) = 1
    /\ \E r2 \in Objects \ {last.receiver} : Bound(m_signalToSlotMap, last.emitter, r2)

====
